---- MODULE Spec2Model ----
(***************************************************************************)
(* mite-cli: the time-entry creation command (source/mite-new.js), the     *)
(* customer list command (src/unnamed/part_000) and the customer-update    *)
(* shell completion (completions/customer-update.js).                      *)
(*                                                                         *)
(* JavaScript strings are sequences of UTF-16 code units (numbers), so     *)
(* that toUpperCase, toLowerCase, indexOf, split, join, substr and the     *)
(* relational operators are computed the way the runtime computes them.    *)
(* `undefined` is the value Undefined, `null` the value Null.              *)
(***************************************************************************)
EXTENDS Integers, Sequences, FiniteSets, TLC

VARIABLES
  command,        \* which program this process runs
  pc,             \* position of the process in its promise chain
  exitCode,       \* process exit code, meaningful once pc = "exited"
  stdout,         \* what console.log has written, in order
  stderr,         \* what console.error has written, in order
  options,        \* checkResults: the candidate list
  query,          \* checkResults: the search string
  searchResults,  \* checkResults: the value returned (<<>> when it does not return)
  chalkEnabled,   \* whether chalk emits escape sequences (colour support)
  argv,           \* mite new: [project, service, minutes, extra] as given
  fetches,        \* mite new: [projects, services], each pending, fulfilled or rejected
  choices,        \* mite new: [projects, services], the fetched candidate lists
  entry,          \* mite new: the entry the promise of main resolved to
  minutesGiven,   \* mite new: entry.minutes as cliMode or the prompt delivered it
  startTracker,   \* mite new: the flag of the same name in main
  addTimeEntryCalls, \* mite new: the entries handed to mite.addTimeEntry
  created,        \* mite new: ids of the time entries the store created
  trackerCalls,   \* mite new: the ids handed to miteTracker.start
  rawOptions,     \* mite customers: the options as given on the command line
  program,        \* mite customers: the options as commander holds them
  requests,       \* the options of every miteApi.getCustomers call
  customers,      \* the customers the API answered with
  items,          \* mite customers: the filtered and sorted customers
  columnLookups,  \* mite customers: the names looked up in COLUMNS_OPTIONS
  tableData,      \* mite customers: the grid built for the output
  env,            \* completion: [prev, line] as tabtab passes them
  completion      \* completion: the promise the completion function returned

commonVars == <<command, pc, exitCode, stdout, stderr>>
resolveVars == <<options, query, searchResults>>
newVars == <<chalkEnabled, argv, fetches, choices, entry, minutesGiven, startTracker,
             addTimeEntryCalls, created, trackerCalls>>
listVars == <<rawOptions, program, requests, customers, items, columnLookups,
              tableData>>
complVars == <<env, completion>>
vars == <<commonVars, resolveVars, newVars, listVars, complVars>>

---------------------------------------------------------------------------
(* Bounds of the model.                                                    *)
MaxNameLen == 2
MaxQueryLen == 2
MaxCandidates == 2
\* bound on the summed name lengths of one candidate list
MaxTotalNameLen == 4

MaxMinutesLen == 2
MaxProjects == 2
MaxServices == 2
MaxColumnEntries == 2
MaxListCustomers == 2
MaxCustomers == 3
MaxLineTokens == 3

---------------------------------------------------------------------------
(* JavaScript values.                                                      *)
Undefined == <<-1>>
Null == <<-2>>

\* !v for a string-or-undefined-or-null value: "" , undefined and null are falsy
Truthy(v) == v # Undefined /\ v # Null /\ v # <<>>

\* all sequences over S of length at most n
RECURSIVE SeqsUpTo(_, _)
SeqsUpTo(S, n) ==
  IF n = 0 THEN {<<>>}
  ELSE LET shorter == SeqsUpTo(S, n - 1)
       IN shorter \cup {Append(s, c) : s \in {t \in shorter : Len(t) = n - 1}, c \in S}

\* String.prototype.toUpperCase on the ASCII range: a..z (97..122) -> A..Z
ToUpperCase(s) ==
  [i \in 1..Len(s) |-> IF s[i] >= 97 /\ s[i] <= 122 THEN s[i] - 32 ELSE s[i]]

\* String.prototype.toLowerCase on the ASCII range: A..Z (65..90) -> a..z
ToLowerCase(s) ==
  [i \in 1..Len(s) |-> IF s[i] >= 65 /\ s[i] <= 90 THEN s[i] + 32 ELSE s[i]]

\* String.prototype.indexOf: the first 0-based position of q in s, or -1
IndexOf(s, q) ==
  LET hits == {i \in 0..(Len(s) - Len(q)) : SubSeq(s, i + 1, i + Len(q)) = q}
  IN IF hits = {} THEN -1 ELSE CHOOSE i \in hits : \A j \in hits : i <= j

---------------------------------------------------------------------------
(* mite-new.js: checkResults(options, query, type)                         *)

\* a plausible slip: compare without folding case
MatchesQueryCaseSensitive(result, q) ==
  Truthy(result.name) /\ IndexOf(result.name, q) > -1

\* the filter predicate of checkResults (line 86)
MatchesQuery(result, q) ==
  Truthy(result.name) /\ IndexOf(ToUpperCase(result.name), ToUpperCase(q)) > -1

\* a plausible slip: return the first of several matches instead of failing
CheckResultsPickFirst(opts, q) ==
  LET found == SelectSeq(opts, LAMBDA r : MatchesQuery(r, q))
  IN IF Len(found) >= 1
     THEN [kind |-> "return", value |-> <<found[1]>>, found |-> found]
     ELSE [kind |-> "exit", value |-> <<>>, found |-> found]

\* checkResults: returns the one-element match list, exits the process with
\* code 1 on zero or several matches, and throws a TypeError when query is
\* undefined and a candidate with a truthy name is filtered (query.toUpperCase)
CheckResults(opts, q) ==
  IF q = Undefined /\ \E i \in 1..Len(opts) : Truthy(opts[i].name)
  THEN [kind |-> "throw", value |-> <<>>, found |-> <<>>]
  ELSE LET found == SelectSeq(opts, LAMBDA r : MatchesQuery(r, q))
       IN IF Len(found) = 1
          THEN [kind |-> "return", value |-> found, found |-> found]
          ELSE [kind |-> "exit", value |-> <<>>, found |-> found]

\* what checkResults prints before process.exit(1) (lines 89-102)
CheckResultsLog(found) ==
  (IF Len(found) = 0
   THEN <<[msg |-> "No matches found", names |-> <<>>]>>
   ELSE <<[msg |-> "Found multiple matching",
           names |-> [i \in 1..Len(found) |-> found[i].name]]>>)
  \o <<[msg |-> "Use the exact name", names |-> <<>>]>>

---------------------------------------------------------------------------
(* The variables of a program that is not the one running.                 *)
NoEntry == [project_id |-> 0, minutes |-> Undefined, service_id |-> 0]
NewIdle ==
  /\ chalkEnabled = FALSE
  /\ argv = [project |-> Undefined, service |-> Undefined, minutes |-> Undefined,
             extra |-> FALSE]
  /\ fetches = [projects |-> "pending", services |-> "pending"]
  /\ choices = [projects |-> <<>>, services |-> <<>>]
  /\ entry = NoEntry
  /\ minutesGiven = Undefined
  /\ startTracker = FALSE
  /\ addTimeEntryCalls = <<>>
  /\ created = <<>>
  /\ trackerCalls = <<>>
ResolveIdle == options = <<>> /\ query = <<>> /\ searchResults = <<>>
NoOptions == [archived |-> Undefined, columns |-> Undefined, format |-> <<>>, sort |-> <<>>]
NoProgram == [archived |-> [t |-> "null", v |-> <<>>], columns |-> <<>>,
              format |-> "", sort |-> ""]
Pending == [state |-> "pending", value |-> <<>>, reason |-> ""]
ComplIdle == env = [prev |-> <<>>, line |-> <<>>] /\ completion = Pending
ListIdle ==
  /\ rawOptions = NoOptions
  /\ program = NoProgram
  /\ requests = <<>>
  /\ customers = <<>>
  /\ items = <<>>
  /\ columnLookups = <<>>
  /\ tableData = <<>>

---------------------------------------------------------------------------
(* checkResults applied to arbitrary candidate lists and queries.          *)

\* the code units used in names and queries: "A", "a", "b"
NameChars == {65, 97, 98}
Names == SeqsUpTo(NameChars, MaxNameLen)
Queries == SeqsUpTo(NameChars, MaxQueryLen)
\* candidate lists: the i-th candidate carries the identifier i
RECURSIVE TotalLen(_)
TotalLen(ns) == IF ns = <<>> THEN 0 ELSE Len(Head(ns)) + TotalLen(Tail(ns))
CandidateLists ==
  {[i \in 1..Len(ns) |-> [name |-> ns[i], value |-> i]] :
     ns \in {l \in SeqsUpTo(Names, MaxCandidates) : TotalLen(l) <= MaxTotalNameLen}}

InitResolve ==
  /\ command = "checkResults"
  /\ pc = "start"
  /\ exitCode = 0
  /\ stdout = <<>>
  /\ stderr = <<>>
  /\ options \in CandidateLists
  /\ query \in Queries
  /\ searchResults = <<>>
  /\ NewIdle
  /\ ListIdle
  /\ ComplIdle

\* the call returns the unique match
ResolveReturn ==
  /\ command = "checkResults" /\ pc = "start"
  /\ LET r == CheckResults(options, query)
     IN /\ r.kind = "return"
        /\ searchResults' = r.value
        /\ pc' = "returned"
  /\ UNCHANGED <<command, exitCode, stdout, stderr, options, query, newVars, listVars, complVars>>

\* the call prints the failure and ends the process with code 1
ResolveExit ==
  /\ command = "checkResults" /\ pc = "start"
  /\ LET r == CheckResults(options, query)
     IN /\ r.kind = "exit"
        /\ stdout' = stdout \o CheckResultsLog(r.found)
        /\ exitCode' = 1
        /\ pc' = "exited"
  /\ UNCHANGED <<command, stderr, options, query, searchResults, newVars, listVars, complVars>>

NextResolve == ResolveReturn \/ ResolveExit

SpecResolve == InitResolve /\ [][NextResolve]_vars

---------------------------------------------------------------------------
(* mite-new.js: the time-entry creation command.                           *)
(* note and date_at are carried into the entry unchanged and take part in  *)
(* no decision; they are left out of the entry.                            *)

\* `value: null` of the "no project" / "no service" choice; the API assigns
\* positive identifiers only
NullId == 0

\* chalk.yellow.bold(s): SGR 33 and 1 around s when colours are supported
ChalkYellowBold(s) ==
  IF chalkEnabled /\ s # <<>>
  THEN <<27, 91, 51, 51, 109, 27, 91, 49, 109>> \o s
       \o <<27, 91, 50, 50, 109, 27, 91, 51, 57, 109>>
  ELSE s

\* "– (no project)" and "– (no service)"
NoProjectName == <<8211, 32, 40, 110, 111, 32, 112, 114, 111, 106, 101, 99, 116, 41>>
NoServiceName == <<8211, 32, 40, 110, 111, 32, 115, 101, 114, 118, 105, 99, 101, 41>>

\* getProjectChoices: "name" or "name (customer_name)", then the null choice
GetProjectChoices(response) ==
  [i \in 1..Len(response) |->
     [name |-> IF Truthy(response[i].customer_name)
               THEN response[i].name \o <<32, 40>> \o response[i].customer_name \o <<41>>
               ELSE response[i].name,
      value |-> response[i].id]]
  \o <<[name |-> NoProjectName, value |-> NullId]>>

\* getServiceChoices: "name" or "name $" (styled), then the null choice
GetServiceChoices(response) ==
  [i \in 1..Len(response) |->
     [name |-> IF response[i].billable
               THEN response[i].name \o <<32>> \o ChalkYellowBold(<<36>>)
               ELSE response[i].name,
      value |-> response[i].id]]
  \o <<[name |-> NoServiceName, value |-> NullId]>>

\* a plausible slip: the "+" is detected but left in the value
DetectTrackerKeepMarker(minutes) ==
  [startTracker |-> minutes[Len(minutes)] = 43, minutes |-> minutes]

\* lines 183-187: minutes.substr(-1, 1) === '+' sets startTracker and cuts
\* the last code unit off
DetectTracker(minutes) ==
  IF minutes[Len(minutes)] = 43
  THEN [startTracker |-> TRUE, minutes |-> SubSeq(minutes, 1, Len(minutes) - 1)]
  ELSE [startTracker |-> FALSE, minutes |-> minutes]

\* An unhandled promise rejection: Node before version 15 prints a warning
\* and the process ends with code 0 once idle, later versions end it with 1.
UnhandledRejectionExitCodes == {0, 1}

\* what the API may answer
ProjectPool ==
  { [id |-> 1, name |-> <<97>>, customer_name |-> Undefined],
    [id |-> 2, name |-> <<65, 98>>, customer_name |-> <<98>>],
    [id |-> 3, name |-> <<98>>, customer_name |-> <<>>] }
ServicePool ==
  { [id |-> 11, name |-> <<97>>, billable |-> FALSE],
    [id |-> 12, name |-> <<65, 66>>, billable |-> TRUE] }
NoRepeat(l) == \A i, j \in 1..Len(l) : i # j => l[i] # l[j]
ProjectResponses == {l \in SeqsUpTo(ProjectPool, MaxProjects) : NoRepeat(l)}
ServiceResponses == {l \in SeqsUpTo(ServicePool, MaxServices) : NoRepeat(l)}
\* the identifiers the store may give a new time entry
EntryIds == {501, 502}

\* the command line: "a", "ab", "b", "(no", "" or nothing for the names,
\* digits "5" and "+" for the minutes
NameArgs == {Undefined, <<>>, <<97>>, <<97, 98>>, <<98>>, <<40, 110, 111>>}
MinutesInputs == SeqsUpTo({53, 43}, MaxMinutesLen)
\* positional arguments: a later one is only given when the earlier ones
\* are; interactive mode reads neither service nor minutes, which are left
\* out there
ArgvSet ==
  {a \in [project : NameArgs, service : NameArgs,
          minutes : MinutesInputs \cup {Undefined}, extra : BOOLEAN] :
     /\ ~Truthy(a.project) => a.service = Undefined
     /\ a.service = Undefined => a.minutes = Undefined
     /\ a.extra => a.minutes # Undefined}

InitNew ==
  /\ command = "new"
  /\ pc = "start"
  /\ exitCode = 0
  /\ stdout = <<>>
  /\ stderr = <<>>
  /\ ResolveIdle
  /\ ListIdle
  /\ ComplIdle
  /\ chalkEnabled \in BOOLEAN
  /\ argv \in ArgvSet
  /\ fetches = [projects |-> "pending", services |-> "pending"]
  /\ choices = [projects |-> <<>>, services |-> <<>>]
  /\ entry = NoEntry
  /\ minutesGiven = Undefined
  /\ startTracker = FALSE
  /\ addTimeEntryCalls = <<>>
  /\ created = <<>>
  /\ trackerCalls = <<>>

Exit(code) == pc' = "exited" /\ exitCode' = code

\* lines 33-41: commander calls main, which issues both fetches; with more
\* than five arguments program.help() then prints the help and exits
NewMain ==
  /\ command = "new" /\ pc = "start"
  /\ IF argv.extra
     THEN Exit(0) /\ stdout' = Append(stdout, [msg |-> "help"])
     ELSE pc' = "fetching" /\ UNCHANGED <<exitCode, stdout>>
  /\ UNCHANGED <<command, stderr, resolveVars, newVars, listVars, complVars>>

\* Promise.all (lines 107-110, 147-150): both fetches are fulfilled
BothFetched(f) == f.projects = "fulfilled" /\ f.services = "fulfilled"

NewProjectsFulfilled ==
  /\ command = "new" /\ pc = "fetching" /\ fetches.projects = "pending"
  /\ \E response \in ProjectResponses :
       choices' = [choices EXCEPT !.projects = GetProjectChoices(response)]
  /\ fetches' = [fetches EXCEPT !.projects = "fulfilled"]
  /\ UNCHANGED <<commonVars, resolveVars, listVars, complVars, chalkEnabled, argv, entry, minutesGiven,
                 startTracker, addTimeEntryCalls, created, trackerCalls>>

NewServicesFulfilled ==
  /\ command = "new" /\ pc = "fetching" /\ fetches.services = "pending"
  /\ \E response \in ServiceResponses :
       choices' = [choices EXCEPT !.services = GetServiceChoices(response)]
  /\ fetches' = [fetches EXCEPT !.services = "fulfilled"]
  /\ UNCHANGED <<commonVars, resolveVars, listVars, complVars, chalkEnabled, argv, entry, minutesGiven,
                 startTracker, addTimeEntryCalls, created, trackerCalls>>

\* a rejected fetch rejects Promise.all and with it the promise of main,
\* which has no rejection handler: a runtime that ends the process on an
\* unhandled rejection does so at once with code 1, one that only warns
\* goes back to the event loop, where the other fetch still settles; the
\* second of two rejections is handled by Promise.all and has no effect
NewProjectsRejected ==
  /\ command = "new" /\ pc = "fetching" /\ fetches.projects = "pending"
  /\ fetches' = [fetches EXCEPT !.projects = "rejected"]
  /\ IF fetches.services = "rejected"
     THEN UNCHANGED <<pc, exitCode>>
     ELSE \E code \in UnhandledRejectionExitCodes :
            IF code = 0 THEN UNCHANGED <<pc, exitCode>> ELSE Exit(code)
  /\ UNCHANGED <<command, stdout, stderr, resolveVars, listVars, complVars, chalkEnabled, argv, choices,
                 entry, minutesGiven, startTracker, addTimeEntryCalls, created,
                 trackerCalls>>

NewServicesRejected ==
  /\ command = "new" /\ pc = "fetching" /\ fetches.services = "pending"
  /\ fetches' = [fetches EXCEPT !.services = "rejected"]
  /\ IF fetches.projects = "rejected"
     THEN UNCHANGED <<pc, exitCode>>
     ELSE \E code \in UnhandledRejectionExitCodes :
            IF code = 0 THEN UNCHANGED <<pc, exitCode>> ELSE Exit(code)
  /\ UNCHANGED <<command, stdout, stderr, resolveVars, listVars, complVars, chalkEnabled, argv, choices,
                 entry, minutesGiven, startTracker, addTimeEntryCalls, created,
                 trackerCalls>>

\* after an unhandled rejection that only warned: both fetches are settled,
\* nothing is left to wait for and the process ends with code 0
NewRejectedIdle ==
  /\ command = "new" /\ pc = "fetching"
  /\ fetches.projects # "pending" /\ fetches.services # "pending"
  /\ ~BothFetched(fetches)
  /\ Exit(0)
  /\ UNCHANGED <<command, stdout, stderr, resolveVars, newVars, listVars, complVars>>

\* cliMode, lines 150-161: both names resolve, the entry is built
NewCliEntry ==
  /\ command = "new" /\ pc = "fetching" /\ BothFetched(fetches)
  /\ Truthy(argv.project)
  /\ LET projects == CheckResults(choices.projects, argv.project)
         services == CheckResults(choices.services, argv.service)
     IN /\ projects.kind = "return" /\ services.kind = "return"
        /\ entry' = [project_id |-> projects.value[1].value,
                     minutes |-> argv.minutes,
                     service_id |-> services.value[1].value]
  /\ minutesGiven' = argv.minutes
  /\ pc' = "resolved"
  /\ UNCHANGED <<command, exitCode, stdout, stderr, resolveVars, listVars, complVars, chalkEnabled, argv,
                 fetches, choices, startTracker, addTimeEntryCalls, created,
                 trackerCalls>>

\* cliMode, lines 151-152: checkResults ends the process for the project or,
\* when the project resolved, for the service
NewCliExit ==
  /\ command = "new" /\ pc = "fetching" /\ BothFetched(fetches)
  /\ Truthy(argv.project)
  /\ LET projects == CheckResults(choices.projects, argv.project)
         services == CheckResults(choices.services, argv.service)
     IN \/ /\ projects.kind = "exit"
           /\ stdout' = stdout \o CheckResultsLog(projects.found)
        \/ /\ projects.kind = "return" /\ services.kind = "exit"
           /\ stdout' = stdout \o CheckResultsLog(services.found)
  /\ Exit(1)
  /\ UNCHANGED <<command, stderr, resolveVars, newVars, listVars, complVars>>

\* cliMode, line 152: without a service argument query.toUpperCase() throws,
\* which rejects the promise of main
NewCliThrow ==
  /\ command = "new" /\ pc = "fetching" /\ BothFetched(fetches)
  /\ Truthy(argv.project)
  /\ CheckResults(choices.projects, argv.project).kind = "return"
  /\ CheckResults(choices.services, argv.service).kind = "throw"
  /\ \E code \in UnhandledRejectionExitCodes : Exit(code)
  /\ UNCHANGED <<command, stdout, stderr, resolveVars, newVars, listVars, complVars>>

\* interactiveMode, lines 110-143: the questions are handed to the prompt
NewPrompt ==
  /\ command = "new" /\ pc = "fetching" /\ BothFetched(fetches)
  /\ ~Truthy(argv.project)
  /\ pc' = "prompting"
  /\ UNCHANGED <<command, exitCode, stdout, stderr, resolveVars, newVars, listVars, complVars>>

\* the user picks one project choice and one service choice and types the
\* minutes
NewAnswers ==
  /\ command = "new" /\ pc = "prompting"
  /\ \E p \in 1..Len(choices.projects), s \in 1..Len(choices.services),
        m \in MinutesInputs :
       /\ entry' = [project_id |-> choices.projects[p].value,
                    minutes |-> m,
                    service_id |-> choices.services[s].value]
       /\ minutesGiven' = m
  /\ pc' = "resolved"
  /\ UNCHANGED <<command, exitCode, stdout, stderr, resolveVars, listVars, complVars, chalkEnabled, argv,
                 fetches, choices, startTracker, addTimeEntryCalls, created,
                 trackerCalls>>

\* main, lines 176-179: falsy minutes, nothing is created and main returns
NewNoMinutes ==
  /\ command = "new" /\ pc = "resolved"
  /\ ~Truthy(entry.minutes)
  /\ stdout' = Append(stdout, [msg |-> "no time entry created"])
  /\ Exit(0)
  /\ UNCHANGED <<command, stderr, resolveVars, newVars, listVars, complVars>>

\* main, lines 181-190: the "+" is detected and mite.addTimeEntry is called
NewAddTimeEntry ==
  /\ command = "new" /\ pc = "resolved"
  /\ Truthy(entry.minutes)
  /\ LET d == DetectTracker(entry.minutes)
     IN /\ startTracker' = d.startTracker
        /\ entry' = [entry EXCEPT !.minutes = d.minutes]
        /\ addTimeEntryCalls' =
             Append(addTimeEntryCalls, [entry EXCEPT !.minutes = d.minutes])
  /\ pc' = "creating"
  /\ UNCHANGED <<command, exitCode, stdout, stderr, resolveVars, listVars, complVars, chalkEnabled, argv,
                 fetches, choices, minutesGiven, created, trackerCalls>>

\* a plausible slip: the error of the create response is reported but the
\* process goes on as after a success
NewCreateErrorIgnored ==
  /\ command = "new" /\ pc = "creating"
  /\ stderr' = Append(stderr, [msg |-> "Error while creating new time entry"])
  /\ Exit(0)
  /\ UNCHANGED <<command, stdout, resolveVars, newVars, listVars, complVars>>

\* the callback of addTimeEntry, lines 191-196: the response carries an error
NewCreateError ==
  /\ command = "new" /\ pc = "creating"
  /\ stderr' = Append(stderr, [msg |-> "Error while creating new time entry"])
  /\ Exit(1)
  /\ UNCHANGED <<command, stdout, resolveVars, newVars, listVars, complVars>>

\* the callback of addTimeEntry, lines 197-208: the entry was created; the
\* tracker is started for it when the "+" was given
NewCreated ==
  /\ command = "new" /\ pc = "creating"
  /\ \E id \in EntryIds :
       /\ created' = Append(created, id)
       /\ stdout' = Append(stdout, [msg |-> "Successfully created new time entry"])
       /\ IF startTracker
          THEN /\ trackerCalls' = Append(trackerCalls, id)
               /\ pc' = "starting"
               /\ UNCHANGED exitCode
          ELSE /\ Exit(0)
               /\ UNCHANGED trackerCalls
  /\ UNCHANGED <<command, stderr, resolveVars, listVars, complVars, chalkEnabled, argv, fetches, choices,
                 entry, minutesGiven, startTracker, addTimeEntryCalls>>

\* miteTracker.start resolved, lines 201-203
NewTrackerStarted ==
  /\ command = "new" /\ pc = "starting"
  /\ stdout' = Append(stdout, [msg |-> "Successfully started the time entry"])
  /\ Exit(0)
  /\ UNCHANGED <<command, stderr, resolveVars, newVars, listVars, complVars>>

\* miteTracker.start rejected, lines 204-207
NewTrackerFailed ==
  /\ command = "new" /\ pc = "starting"
  /\ stdout' = Append(stdout, [msg |-> "Unable to start the time entry"])
  /\ Exit(1)
  /\ UNCHANGED <<command, stderr, resolveVars, newVars, listVars, complVars>>

NextNew ==
  \/ NewMain
  \/ NewProjectsFulfilled \/ NewServicesFulfilled
  \/ NewProjectsRejected \/ NewServicesRejected \/ NewRejectedIdle
  \/ NewCliEntry \/ NewCliExit \/ NewCliThrow
  \/ NewPrompt \/ NewAnswers
  \/ NewNoMinutes \/ NewAddTimeEntry
  \/ NewCreateError \/ NewCreated
  \/ NewTrackerStarted \/ NewTrackerFailed

SpecNew == InitNew /\ [][NextNew]_vars

---------------------------------------------------------------------------
(* src/unnamed/part_000: the customer list command ("mite customers").     *)
(* A JavaScript value of mixed type is a record [t, v]: t its type, v a    *)
(* sequence holding the number, the truth value or the string's code units.*)

Num(n) == [t |-> "number", v |-> <<n>>]
Str(s) == [t |-> "string", v |-> s]
Bool(b) == [t |-> "boolean", v |-> <<IF b THEN 1 ELSE 0>>]
JsNull == [t |-> "null", v |-> <<>>]
JsUndefined == [t |-> "undefined", v |-> <<>>]

\* !value
Falsy(value) ==
  \/ value.t \in {"null", "undefined"}
  \/ value.t \in {"number", "boolean"} /\ value.v = <<0>>
  \/ value.t = "string" /\ value.v = <<>>

\* the decimal digits of a natural number
RECURSIVE Digits(_)
Digits(n) == IF n < 10 THEN <<48 + n>> ELSE Digits(n \div 10) \o <<48 + (n % 10)>>

\* String(value)
StringOf(value) ==
  CASE value.t = "number" -> Digits(value.v[1])
    [] value.t = "string" -> value.v
    [] value.t = "boolean" ->
         IF value.v = <<1>> THEN <<116, 114, 117, 101>> ELSE <<102, 97, 108, 115, 101>>
    [] value.t = "null" -> <<110, 117, 108, 108>>
    [] value.t = "undefined" -> <<117, 110, 100, 101, 102, 105, 110, 101, 100>>

\* a < b on strings: the order of the code units
StrLess(a, b) ==
  \E k \in 1..Len(b) :
    /\ k <= Len(a) + 1
    /\ \A j \in 1..(k - 1) : a[j] = b[j]
    /\ (k = Len(a) + 1 \/ a[k] < b[k])

\* object[key] of a record, undefined for a missing key
GetAttr(item, key) == IF key \in DOMAIN item THEN item[key] ELSE JsUndefined

\* SORT_OPTIONS, lines 13-20
SORT_OPTIONS == <<"id", "name", "updated_at", "created_at", "hourly_rate", "rate">>
SortOptionSet == {SORT_OPTIONS[i] : i \in 1..Len(SORT_OPTIONS)}
\* SORT_OPTIONS.indexOf(value)
SORT_OPTIONS_indexOf(value) ==
  LET hits == {i \in 1..Len(SORT_OPTIONS) : SORT_OPTIONS[i] = value}
  IN IF hits = {} THEN -1 ELSE (CHOOSE i \in hits : \A j \in hits : i <= j) - 1

\* the parser of --archived, lines 71-76
ArchivedParser(val) ==
  Bool(ToLowerCase(val) \in
         {<<116, 114, 117, 101>>, <<121, 101, 115>>, <<106, 97>>, <<111, 107>>, <<49>>})

\* str.split(',')
RECURSIVE Split(_)
Split(str) ==
  LET commas == {i \in 1..Len(str) : str[i] = 44}
  IN IF commas = {} THEN <<str>>
     ELSE LET i == CHOOSE c \in commas : \A d \in commas : c <= d
          IN <<SubSeq(str, 1, i - 1)>> \o Split(SubSeq(str, i + 1, Len(str)))

\* list.join(',')
RECURSIVE Join(_)
Join(list) ==
  IF list = <<>> THEN <<>>
  ELSE IF Len(list) = 1 THEN list[1]
  ELSE list[1] \o <<44>> \o Join(Tail(list))

\* the parser of --columns, line 83
ColumnsParser(str) == Join(SelectSeq(Split(str), LAMBDA v : v # <<>>))

\* the default of --columns, line 84: 'id,name,rate,note'
ColumnsDefault ==
  <<105, 100, 44, 110, 97, 109, 101, 44, 114, 97, 116, 101, 44, 110, 111, 116, 101>>

\* the keys of COLUMNS_OPTIONS, lines 23-62
K_created_at == <<99, 114, 101, 97, 116, 101, 100, 95, 97, 116>>
K_id == <<105, 100>>
K_name == <<110, 97, 109, 101>>
K_note == <<110, 111, 116, 101>>
K_rate == <<114, 97, 116, 101>>
K_updated_at == <<117, 112, 100, 97, 116, 101, 100, 95, 97, 116>>
CatalogKeys == {K_created_at, K_id, K_name, K_note, K_rate, K_updated_at}

\* the twelve names every object literal inherits from Object.prototype:
\* toString, constructor, valueOf, hasOwnProperty, isPrototypeOf,
\* propertyIsEnumerable, toLocaleString, __proto__, __defineGetter__,
\* __defineSetter__, __lookupGetter__, __lookupSetter__
ObjectPrototypeKeys ==
  { <<116, 111, 83, 116, 114, 105, 110, 103>>,
    <<99, 111, 110, 115, 116, 114, 117, 99, 116, 111, 114>>,
    <<118, 97, 108, 117, 101, 79, 102>>,
    <<104, 97, 115, 79, 119, 110, 80, 114, 111, 112, 101, 114, 116, 121>>,
    <<105, 115, 80, 114, 111, 116, 111, 116, 121, 112, 101, 79, 102>>,
    <<112, 114, 111, 112, 101, 114, 116, 121, 73, 115, 69, 110, 117, 109,
      101, 114, 97, 98, 108, 101>>,
    <<116, 111, 76, 111, 99, 97, 108, 101, 83, 116, 114, 105, 110, 103>>,
    <<95, 95, 112, 114, 111, 116, 111, 95, 95>>,
    <<95, 95, 100, 101, 102, 105, 110, 101, 71, 101, 116, 116, 101, 114,
      95, 95>>,
    <<95, 95, 100, 101, 102, 105, 110, 101, 83, 101, 116, 116, 101, 114,
      95, 95>>,
    <<95, 95, 108, 111, 111, 107, 117, 112, 71, 101, 116, 116, 101, 114,
      95, 95>>,
    <<95, 95, 108, 111, 111, 107, 117, 112, 83, 101, 116, 116, 101, 114,
      95, 95>> }

ColumnDef(kind, label, attribute, width, alignment, format) ==
  [kind |-> kind, label |-> label, attribute |-> attribute, width |-> width,
   alignment |-> alignment, format |-> format]

\* a plausible slip: a name the catalog does not hold falls back to "id"
\* COLUMNS_OPTIONS[attrName]: the catalog entry, a property inherited from
\* Object.prototype (a truthy value without label, attribute or format), or
\* undefined; width 0 and alignment "" stand for an absent property
ColumnsOptions(attrName) ==
  CASE attrName = K_created_at ->
         ColumnDef("catalog", Str(<<99, 114, 101, 97, 116, 101, 100, 32, 97, 116>>),
                   "created_at", 0, "", "none")
    [] attrName = K_id ->
         ColumnDef("catalog", Str(<<105, 100>>), "id", 10, "right", "none")
    [] attrName = K_name ->
         ColumnDef("catalog", Str(<<110, 97, 109, 101>>), "name", 0, "", "none")
    [] attrName = K_note ->
         ColumnDef("catalog", Str(<<78, 111, 116, 101>>), "note", 50, "left", "note")
    [] attrName = K_rate ->
         ColumnDef("catalog", Str(<<114, 97, 116, 101>>), "hourly_rate", 10, "right", "rate")
    [] attrName = K_updated_at ->
         ColumnDef("catalog", Str(<<117, 112, 100, 97, 116, 101, 100, 32, 97, 116>>),
                   "updated_at", 0, "", "none")
    [] attrName \in ObjectPrototypeKeys ->
         ColumnDef("inherited", JsUndefined, "undefined", 0, "", "none")
    [] OTHER ->
         ColumnDef("undefined", JsUndefined, "undefined", 0, "", "none")

\* chalk.grey(v) and chalk.bold(v): SGR 90..39 and 1..22 around String(v);
\* an empty string is returned as it is
ChalkGrey(value) ==
  Str(IF chalkEnabled /\ StringOf(value) # <<>>
      THEN <<27, 91, 57, 48, 109>> \o StringOf(value) \o <<27, 91, 51, 57, 109>>
      ELSE StringOf(value))
ChalkBold(value) ==
  Str(IF chalkEnabled /\ StringOf(value) # <<>>
      THEN <<27, 91, 49, 109>> \o StringOf(value) \o <<27, 91, 50, 50, 109>>
      ELSE StringOf(value))

\* formater.budget(BUDGET_TYPE.CENTS, value): cents as "major.minor"
Budget(cents) ==
  Digits(cents \div 100) \o <<46>> \o <<48 + ((cents % 100) \div 10), 48 + (cents % 10)>>

\* the format function of a column applied to a value (lines 44, 51-56)
FormatCell(format, value) ==
  CASE format = "rate" -> IF Falsy(value) THEN Str(<<45>>) ELSE Str(Budget(value.v[1]))
    [] format = "note" -> value
    [] OTHER -> value

\* the filter callback, lines 143-148
ArchivedFilter(customer, archived) ==
  archived = JsNull \/ customer.archived = archived

\* a plausible slip: the comparator without toLowerCase
CompareCaseSensitive(a, b, sort) ==
  LET key == IF sort = "rate" THEN "hourly_rate" ELSE sort
      val1 == StringOf(GetAttr(a, key))
      val2 == StringOf(GetAttr(b, key))
  IN IF sort = "" THEN 0
     ELSE IF StrLess(val2, val1) THEN 1
     ELSE IF StrLess(val1, val2) THEN -1
     ELSE 0

\* the sort comparator, lines 149-167
Compare(a, b, sort) ==
  LET key == IF sort = "rate" THEN "hourly_rate" ELSE sort
      val1 == ToLowerCase(StringOf(GetAttr(a, key)))
      val2 == ToLowerCase(StringOf(GetAttr(b, key)))
  IN IF sort = "" THEN 0
     ELSE IF StrLess(val2, val1) THEN 1
     ELSE IF StrLess(val1, val2) THEN -1
     ELSE 0

\* Array.prototype.sort with the comparator above: the engine sorts arrays
\* of this size by insertion, an element moving left past the elements that
\* compare greater than it
RECURSIVE Insert(_, _, _)
Insert(sorted, x, sort) ==
  IF sorted = <<>> THEN <<x>>
  ELSE IF Compare(sorted[Len(sorted)], x, sort) > 0
  THEN Append(Insert(SubSeq(sorted, 1, Len(sorted) - 1), x, sort), sorted[Len(sorted)])
  ELSE Append(sorted, x)
RECURSIVE ArraySort(_, _)
ArraySort(list, sort) ==
  IF list = <<>> THEN <<>>
  ELSE Insert(ArraySort(SubSeq(list, 1, Len(list) - 1), sort), list[Len(list)], sort)

\* the first then-callback, lines 141-168
FilterAndSort(list, archived, sort) ==
  ArraySort(SelectSeq(list, LAMBDA c : ArchivedFilter(c, archived)), sort)

\* program.columns.split(',').map(...), lines 170-179, up to the first name
\* whose lookup is falsy
ResolveColumns(columns) ==
  LET names == Split(columns)
      bad == {i \in 1..Len(names) : ColumnsOptions(names[i]).kind = "undefined"}
  IN IF bad = {}
     THEN [ok |-> TRUE, invalid |-> <<>>,
           columns |-> [i \in 1..Len(names) |-> ColumnsOptions(names[i])],
           lookups |-> names]
     ELSE LET first == CHOOSE i \in bad : \A j \in bad : i <= j
          IN [ok |-> FALSE, invalid |-> names[first], columns |-> <<>>,
              lookups |-> SubSeq(names, 1, first)]

\* lines 182-201: one row per item, archived rows greyed, the bold header first
TableData(list, columns) ==
  <<[c \in 1..Len(columns) |-> ChalkBold(columns[c].label)]>> \o
  [r \in 1..Len(list) |->
     [c \in 1..Len(columns) |->
        LET cell == FormatCell(columns[c].format, GetAttr(list[r], columns[c].attribute))
        IN IF ~Falsy(list[r].archived) THEN ChalkGrey(cell) ELSE cell]]

\* DataOutput.formatData: the rendering of the grid in the given format
FormatData(data, format, columns) == [msg |-> "data", format |-> format, data |-> data]

\* what the API may answer
CustomerPool ==
  { [id |-> Num(9), name |-> Str(<<98>>), hourly_rate |-> Num(1050),
     archived |-> Bool(FALSE), note |-> Str(<<>>),
     created_at |-> Str(<<50, 48, 50, 48>>), updated_at |-> Str(<<50, 48, 50, 48>>)],
    [id |-> Num(10), name |-> Str(<<66>>), hourly_rate |-> JsNull,
     archived |-> Bool(TRUE), note |-> Str(<<110>>),
     created_at |-> Str(<<50, 48, 49, 57>>), updated_at |-> Str(<<50, 48, 50, 48>>)],
    [id |-> Num(100), name |-> Str(<<97>>), hourly_rate |-> Num(1050),
     archived |-> Bool(FALSE), note |-> Str(<<110>>),
     created_at |-> Str(<<50, 48, 49, 57>>), updated_at |-> Str(<<50, 48, 49, 57>>)],
    [id |-> Num(2), name |-> Str(<<65, 98>>), hourly_rate |-> Num(0),
     archived |-> Bool(TRUE), note |-> Str(<<>>),
     created_at |-> Str(<<50, 48, 50, 48>>), updated_at |-> Str(<<50, 48, 49, 57>>)] }
CustomerResponses(n) == {l \in SeqsUpTo(CustomerPool, n) : NoRepeat(l)}

\* the command line: --archived yes / JA / no, a non-empty --columns value
\* built from the entries "", "id", "zz" and "toString", --sort and --format
\* values
ArchivedArgs == {Undefined, <<121, 101, 115>>, <<74, 65>>, <<110, 111>>}
ColumnEntries == {<<>>, K_id, <<122, 122>>, <<116, 111, 83, 116, 114, 105, 110, 103>>}
ColumnsArgs ==
  {Undefined} \cup ({Join(l) : l \in SeqsUpTo(ColumnEntries, MaxColumnEntries)} \ {<<>>})
SortArgs == {<<>>} \cup {<<k>> : k \in SortOptionSet \cup {"note"}}
\* --format: not given, or one of the formats the help text names
FormatArgs == {<<>>, <<"csv">>, <<"text">>}

InitList ==
  /\ command = "customers"
  /\ pc = "start"
  /\ exitCode = 0
  /\ stdout = <<>>
  /\ stderr = <<>>
  /\ ResolveIdle
  /\ ComplIdle
  /\ chalkEnabled \in BOOLEAN
  /\ argv = [project |-> Undefined, service |-> Undefined, minutes |-> Undefined,
             extra |-> FALSE]
  /\ fetches = [projects |-> "pending", services |-> "pending"]
  /\ choices = [projects |-> <<>>, services |-> <<>>]
  /\ entry = NoEntry
  /\ minutesGiven = Undefined
  /\ startTracker = FALSE
  /\ addTimeEntryCalls = <<>>
  /\ created = <<>>
  /\ trackerCalls = <<>>
  /\ rawOptions \in [archived : ArchivedArgs, columns : ColumnsArgs,
                     format : FormatArgs, sort : SortArgs]
  /\ program = NoProgram
  /\ requests = <<>>
  /\ customers = <<>>
  /\ items = <<>>
  /\ columnLookups = <<>>
  /\ tableData = <<>>

\* the validator of --sort, lines 101-111: only called when --sort is given
SortAccepted(given) ==
  IF given = <<>> THEN TRUE ELSE SORT_OPTIONS_indexOf(given[1]) # -1

listFrame == <<command, resolveVars, complVars, argv, fetches, choices, entry, minutesGiven,
               startTracker, addTimeEntryCalls, created, trackerCalls, chalkEnabled,
               rawOptions>>
listData == <<program, requests, customers, items, columnLookups, tableData>>

\* lines 64-134: an invalid --sort value ends the process with code 2 while
\* the options are parsed
ListSortInvalid ==
  /\ command = "customers" /\ pc = "start"
  /\ ~SortAccepted(rawOptions.sort)
  /\ stderr' = Append(stderr, [msg |-> "Invalid value for sort option"])
  /\ Exit(2)
  /\ UNCHANGED <<listFrame, stdout, listData>>

\* lines 64-140: the options are parsed and miteApi.getCustomers is called
ListStart ==
  /\ command = "customers" /\ pc = "start"
  /\ SortAccepted(rawOptions.sort)
  /\ program' =
       [archived |-> IF rawOptions.archived = Undefined THEN JsNull
                     ELSE ArchivedParser(rawOptions.archived),
        columns |-> IF rawOptions.columns = Undefined THEN ColumnsDefault
                    ELSE ColumnsParser(rawOptions.columns),
        format |-> IF rawOptions.format = <<>> THEN "table" ELSE rawOptions.format[1],
        sort |-> IF rawOptions.sort = <<>> THEN "name" ELSE rawOptions.sort[1]]
  /\ requests' = Append(requests, [name |-> Undefined])
  /\ pc' = "fetching"
  /\ UNCHANGED <<listFrame, exitCode, stdout, stderr, customers, items, columnLookups,
                 tableData>>

\* lines 141-168: the customers arrive and are filtered and sorted
ListFetched ==
  /\ command = "customers" /\ pc = "fetching"
  /\ \E response \in CustomerResponses(MaxListCustomers) :
       /\ customers' = response
       /\ items' = FilterAndSort(response, program.archived, program.sort)
  /\ pc' = "filtered"
  /\ UNCHANGED <<listFrame, exitCode, stdout, stderr, program, requests, columnLookups,
                 tableData>>

\* lines 205-208: the fetch failed, the message is logged, exit code 1
ListRejected ==
  /\ command = "customers" /\ pc = "fetching"
  /\ stdout' = Append(stdout, [msg |-> "error"])
  /\ Exit(1)
  /\ UNCHANGED <<listFrame, stderr, listData>>

\* lines 170-177: a column name whose lookup is falsy ends the process with
\* code 2
ListColumnInvalid ==
  /\ command = "customers" /\ pc = "filtered"
  /\ ~ResolveColumns(program.columns).ok
  /\ columnLookups' = ResolveColumns(program.columns).lookups
  /\ stderr' = Append(stderr, [msg |-> "Invalid column name"])
  /\ Exit(2)
  /\ UNCHANGED <<listFrame, stdout, program, requests, customers, items, tableData>>

\* lines 181-203: the grid is built and handed to DataOutput.formatData
ListRender ==
  /\ command = "customers" /\ pc = "filtered"
  /\ LET r == ResolveColumns(program.columns)
     IN /\ r.ok
        /\ columnLookups' = r.lookups
        /\ tableData' = TableData(items, r.columns)
        /\ stdout' = Append(stdout,
                             FormatData(TableData(items, r.columns), program.format,
                                        r.columns))
        /\ Exit(0)
  /\ UNCHANGED <<listFrame, stderr, program, requests, customers, items>>

NextList ==
  \/ ListSortInvalid \/ ListStart
  \/ ListFetched \/ ListRejected
  \/ ListColumnInvalid \/ ListRender

SpecList == InitList /\ [][NextList]_vars

---------------------------------------------------------------------------
(* The filter and sort of the list command applied to longer customer      *)
(* lists, for every sort option and every state of the archived filter.    *)

InitSort ==
  /\ command = "sort"
  /\ pc = "fetching"
  /\ exitCode = 0
  /\ stdout = <<>>
  /\ stderr = <<>>
  /\ ResolveIdle
  /\ NewIdle
  /\ ComplIdle
  /\ rawOptions = NoOptions
  /\ \E a \in {JsNull, Bool(TRUE), Bool(FALSE)}, k \in SortOptionSet :
       program = [archived |-> a, columns |-> ColumnsDefault, format |-> "table",
                  sort |-> k]
  /\ requests = <<[name |-> Undefined]>>
  /\ customers \in CustomerResponses(MaxCustomers)
  /\ items = <<>>
  /\ columnLookups = <<>>
  /\ tableData = <<>>

SortApply ==
  /\ command = "sort" /\ pc = "fetching"
  /\ items' = FilterAndSort(customers, program.archived, program.sort)
  /\ pc' = "filtered"
  /\ UNCHANGED <<listFrame, exitCode, stdout, stderr, program, requests, customers,
                 columnLookups, tableData>>

NextSort == SortApply

SpecSort == InitSort /\ [][NextSort]_vars

---------------------------------------------------------------------------
(* completions/customer-update.js: the completion of                       *)
(* "mite customer update".                                                 *)

W_archived == <<45, 45, 97, 114, 99, 104, 105, 118, 101, 100>>
W_hourly_rate == <<45, 45, 104, 111, 117, 114, 108, 121, 45, 114, 97, 116, 101>>
W_name == <<45, 45, 110, 97, 109, 101>>
W_note == <<45, 45, 110, 111, 116, 101>>
W_update_entries ==
  <<45, 45, 117, 112, 100, 97, 116, 101, 45, 101, 110, 116, 114, 105, 101, 115>>
W_help == <<45, 45, 104, 101, 108, 112>>

\* defaults, lines 7-32: the options with their description texts
defaults ==
  << [name |-> W_archived,
      description |->
        <<97, 114, 99, 104, 105, 118, 101, 32, 111, 114, 32, 117, 110, 97,
        114, 99, 104, 105, 118, 101, 32, 97, 32, 112, 114, 111, 106, 101,
        99, 116>>],
     [name |-> W_hourly_rate,
      description |->
        <<99, 104, 97, 110, 103, 101, 32, 116, 104, 101, 32, 104, 111, 117,
        114, 108, 121, 45, 114, 97, 116, 101>>],
     [name |-> W_name,
      description |->
        <<99, 104, 97, 110, 103, 101, 32, 116, 104, 101, 32, 110, 97, 109,
        101, 32, 111, 102, 32, 116, 104, 101, 32, 112, 114, 111, 106, 101,
        99, 116>>],
     [name |-> W_note,
      description |->
        <<99, 104, 97, 110, 103, 101, 32, 116, 104, 101, 32, 110, 111, 116,
        101, 32, 111, 102, 32, 116, 104, 101, 32, 112, 114, 111, 106, 101,
        99, 116>>],
     [name |-> W_update_entries,
      description |->
        <<117, 112, 100, 97, 116, 101, 32, 116, 105, 109, 101, 32, 101, 110,
        116, 114, 105, 101, 115, 32, 119, 104, 101, 110, 32, 104, 111, 117,
        114, 108, 121, 95, 114, 97, 116, 101, 32, 119, 97, 115, 32, 99, 104,
        97, 110, 103, 101, 100>>],
     [name |-> W_help,
      description |->
        <<115, 104, 111, 119, 32, 104, 101, 108, 112, 32, 109, 101, 115,
        115, 97, 103, 101>>] >>

\* the switch on prev, lines 47-56: 'yes' 'no', 'name', 'note', '0.00'
ValueProposals(prev) ==
  CASE prev = W_archived -> <<<<121, 101, 115>>, <<110, 111>>>>
    [] prev = W_name -> <<<<110, 97, 109, 101>>>>
    [] prev = W_note -> <<<<110, 111, 116, 101>>>>
    [] prev = W_hourly_rate -> <<<<48, 46, 48, 48>>>>
    [] OTHER -> <<>>

\* lines 60-62: the defaults whose name does not occur in the line
RemainingDefaults(line) ==
  SelectSeq(defaults, LAMBDA option : IndexOf(line, option.name) = -1)

\* w occurs in s at the 1-based position i
OccursAt(s, i, w) == i + Len(w) - 1 <= Len(s) /\ SubSeq(s, i, i + Len(w) - 1) = w

\* /--archived[ =](yes|true|1|ja)/.test(line), line 67
ArchivedTruthy(line) ==
  \E i \in 1..Len(line) :
    /\ OccursAt(line, i, W_archived)
    /\ i + Len(W_archived) <= Len(line)
    /\ line[i + Len(W_archived)] \in {32, 61}
    /\ \E w \in {<<121, 101, 115>>, <<116, 114, 117, 101>>, <<49>>, <<106, 97>>} :
         OccursAt(line, i + Len(W_archived) + 1, w)

\* lines 70-73: the customers as options
CustomerOptions(list) ==
  [i \in 1..Len(list) |-> [name |-> StringOf(list[i].id), description |-> list[i].name.v]]

\* the input line: "mite customer update " and up to MaxLineTokens of
\* "--archived", " ", "=", "yes", "no", "--note"
LinePrefix ==
  <<109, 105, 116, 101, 32, 99, 117, 115, 116, 111, 109, 101, 114, 32,
    117, 112, 100, 97, 116, 101, 32>>
LineTokens == {W_archived, <<32>>, <<61>>, <<121, 101, 115>>, <<110, 111>>, W_note}
RECURSIVE Concat(_)
Concat(l) == IF l = <<>> THEN <<>> ELSE Head(l) \o Concat(Tail(l))
Lines == {LinePrefix \o Concat(l) : l \in SeqsUpTo(LineTokens, MaxLineTokens)}
PrevWords ==
  {W_archived, W_name, W_note, W_hourly_rate, <<121, 101, 115>>,
   <<117, 112, 100, 97, 116, 101>>}

InitComplete ==
  /\ command = "completion"
  /\ pc = "start"
  /\ exitCode = 0
  /\ stdout = <<>>
  /\ stderr = <<>>
  /\ ResolveIdle
  /\ NewIdle
  /\ ListIdle
  /\ env \in [prev : PrevWords, line : Lines]
  /\ completion = Pending

complFrame == <<command, exitCode, stdout, stderr, resolveVars, newVars, rawOptions,
                program, items, columnLookups, tableData, env>>

\* lines 47-56: prev is an option that takes a value
ComplValue ==
  /\ command = "completion" /\ pc = "start"
  /\ ValueProposals(env.prev) # <<>>
  /\ completion' = [state |-> "resolved", value |-> ValueProposals(env.prev), reason |-> ""]
  /\ pc' = "settled"
  /\ UNCHANGED <<complFrame, requests, customers>>

\* lines 66-68: with --archived in the line, customerOptions is read before
\* its const declaration has run, a ReferenceError that rejects the promise
ComplReferenceError ==
  /\ command = "completion" /\ pc = "start"
  /\ ValueProposals(env.prev) = <<>>
  /\ IndexOf(env.line, W_archived) # -1
  /\ completion' = [state |-> "rejected", value |-> <<>>, reason |-> "ReferenceError"]
  /\ pc' = "settled"
  /\ UNCHANGED <<complFrame, requests, customers>>

\* lines 65-69: getCustomers is called with the empty requestOptions
ComplRequest ==
  /\ command = "completion" /\ pc = "start"
  /\ ValueProposals(env.prev) = <<>>
  /\ IndexOf(env.line, W_archived) = -1
  /\ requests' = Append(requests, [archived |-> JsUndefined])
  /\ pc' = "awaiting"
  /\ UNCHANGED <<complFrame, completion, customers>>

\* lines 69-76: the customers arrive, the merged list is returned
ComplResolved ==
  /\ command = "completion" /\ pc = "awaiting"
  /\ \E response \in CustomerResponses(MaxListCustomers) :
       /\ customers' = response
       /\ completion' =
            [state |-> "resolved",
             value |-> CustomerOptions(response)
                       \o RemainingDefaults(env.line),
             reason |-> ""]
  /\ pc' = "settled"
  /\ UNCHANGED <<complFrame, requests>>

\* line 69: getCustomers rejects and the await throws
ComplFetchRejected ==
  /\ command = "completion" /\ pc = "awaiting"
  /\ completion' = [state |-> "rejected", value |-> <<>>, reason |-> "getCustomers"]
  /\ pc' = "settled"
  /\ UNCHANGED <<complFrame, requests, customers>>

NextComplete ==
  \/ ComplValue \/ ComplReferenceError \/ ComplRequest
  \/ ComplResolved \/ ComplFetchRejected

SpecComplete == InitComplete /\ [][NextComplete]_vars

---------------------------------------------------------------------------
(* Any of the programs.                                                    *)
Init == InitResolve \/ InitNew \/ InitList \/ InitSort \/ InitComplete
Next == NextResolve \/ NextNew \/ NextList \/ NextSort \/ NextComplete
Spec == Init /\ [][Next]_vars

---------------------------------------------------------------------------
(* Claims.                                                                 *)

IsLetter(c) == (c >= 65 /\ c <= 90) \/ (c >= 97 /\ c <= 122)
SameLetter(a, b) ==
  a = b \/ (IsLetter(a) /\ IsLetter(b) /\ (a - b = 32 \/ b - a = 32))
\* name contains q as a case-insensitive substring
ContainsIgnoreCase(name, q) ==
  \E k \in 0..(Len(name) - Len(q)) : \A j \in 1..Len(q) : SameLetter(name[k + j], q[j])

ResolveDone == command = "checkResults" /\ pc # "start"

\* the resolver's verdict for a given match set (indices into options)
ResolverVerdictFor(M) ==
  /\ (pc = "returned") <=> (Cardinality(M) = 1)
  /\ pc = "returned" => \E i \in M : searchResults = <<options[i]>>
  /\ (pc = "exited") <=> (Cardinality(M) # 1)
  /\ pc = "exited" => exitCode = 1 /\ searchResults = <<>>

\* C1 as stated: the match set is every candidate whose name contains the
\* query case-insensitively; the resolver returns exactly when that set has
\* one element, and otherwise exits with code 1
C1_AsStated ==
  ResolveDone =>
    ResolverVerdictFor({i \in 1..Len(options) : ContainsIgnoreCase(options[i].name, query)})

\* C1 amended: the match set is every candidate with a non-empty name that
\* contains the query case-insensitively; the resolver returns that candidate
\* exactly when the set has one element, and otherwise exits with code 1
C1_Resolver ==
  ResolveDone =>
    ResolverVerdictFor({i \in 1..Len(options) :
       options[i].name # <<>> /\ ContainsIgnoreCase(options[i].name, query)})

\* the second of two candidates is returned although the first one's name is
\* a case-insensitive part of the second's (the "Acme" / "Acme Corp" case)
C1_Witness ==
  /\ ResolveDone /\ pc = "returned"
  /\ Len(options) = 2
  /\ searchResults = <<options[2]>>
  /\ options[1].name # <<>>
  /\ Len(options[1].name) < Len(options[2].name)
  /\ ContainsIgnoreCase(options[2].name, options[1].name)
  /\ query # options[2].name

---------------------------------------------------------------------------
(* Claims about the time-entry creation command.                           *)

DirectMode == command = "new" /\ Truthy(argv.project)
\* the candidates of cands that q resolves to, as the claims word it
MatchSet(cands, q) ==
  IF q = Undefined THEN {}
  ELSE {i \in 1..Len(cands) :
          cands[i].name # <<>> /\ ContainsIgnoreCase(cands[i].name, q)}
Printed(out, m) == \E i \in 1..Len(out) : out[i].msg = m
EndsWithPlus(m) == Truthy(m) /\ m[Len(m)] = 43

\* C2: in direct mode addTimeEntry is only ever called when both fetches were
\* fulfilled and the project name and the service name each match exactly
\* one candidate, and then with the identifiers of those two candidates
C2_CreateAfterResolution ==
  (DirectMode /\ addTimeEntryCalls # <<>>) =>
    /\ fetches.projects = "fulfilled" /\ fetches.services = "fulfilled"
    /\ Cardinality(MatchSet(choices.projects, argv.project)) = 1
    /\ Cardinality(MatchSet(choices.services, argv.service)) = 1
    /\ Len(addTimeEntryCalls) = 1
    /\ \E p \in MatchSet(choices.projects, argv.project) :
         addTimeEntryCalls[1].project_id = choices.projects[p].value
    /\ \E v \in MatchSet(choices.services, argv.service) :
         addTimeEntryCalls[1].service_id = choices.services[v].value

\* a direct-mode run that called addTimeEntry for a real project and a real
\* service, each picked among two fetched ones
C2_Witness ==
  /\ DirectMode /\ Len(addTimeEntryCalls) = 1
  /\ Len(choices.projects) = 3 /\ Len(choices.services) = 3
  /\ addTimeEntryCalls[1].project_id # NullId
  /\ addTimeEntryCalls[1].service_id # NullId

\* the callback main attaches to its promise has run
MainCallbackRan ==
  Printed(stdout, "no time entry created") \/ addTimeEntryCalls # <<>>

\* C3 as stated, for the runs that got as far as the callback of main: a
\* terminated run either created the entry (and started the tracker when
\* asked to) and exits with 0, or exits non-zero with nothing created and no
\* tracker started
C3_AsStated ==
  (command = "new" /\ pc = "exited" /\ MainCallbackRan) =>
    \/ /\ exitCode = 0 /\ Len(created) = 1
       /\ startTracker => Printed(stdout, "Successfully started the time entry")
    \/ exitCode # 0 /\ created = <<>> /\ trackerCalls = <<>>

\* C3 amended: a run that exits with 0 either never called addTimeEntry and
\* created nothing, or created the entry and started the tracker when asked
\* to; a run that exits non-zero exits with 1 and has created nothing, unless
\* the entry was created and starting the requested tracker failed
C3_Outcome ==
  (command = "new" /\ pc = "exited") =>
    /\ exitCode = 0 =>
         \/ addTimeEntryCalls = <<>> /\ created = <<>> /\ trackerCalls = <<>>
         \/ /\ Len(created) = 1
            /\ startTracker => Printed(stdout, "Successfully started the time entry")
    /\ exitCode # 0 =>
         /\ exitCode = 1
         /\ \/ created = <<>> /\ trackerCalls = <<>>
            \/ /\ Len(created) = 1 /\ startTracker /\ trackerCalls = created
               /\ Printed(stdout, "Unable to start the time entry")

\* the run created the entry, failed to start the tracker and exited with 1
C3_Witness ==
  /\ command = "new" /\ pc = "exited" /\ exitCode = 1
  /\ Len(created) = 1 /\ trackerCalls = created

\* C8 as stated: the tracker is started only when the minutes given ended
\* with "+", only after addTimeEntry answered without an error, and only for
\* the id of the created entry; an error response ends the process with code
\* 1 and no tracker start; the minutes sent to addTimeEntry never end with
\* "+" when a "+" marker was detected
C8_AsStated ==
  command = "new" =>
    /\ trackerCalls # <<>> =>
         /\ EndsWithPlus(minutesGiven)
         /\ Len(created) = 1 /\ trackerCalls = created
         /\ ~Printed(stderr, "Error while creating new time entry")
    /\ Printed(stderr, "Error while creating new time entry") =>
         pc = "exited" /\ exitCode = 1 /\ trackerCalls = <<>> /\ created = <<>>
    /\ \A i \in 1..Len(addTimeEntryCalls) :
         startTracker => ~EndsWithPlus(addTimeEntryCalls[i].minutes)

\* C8 amended: the tracker is started only when the minutes given ended
\* with "+", only after the create response came without an error and only
\* for the id of the created entry; an error response ends the process with
\* code 1 and no tracker start; the minutes sent are the minutes given
\* without their one final "+" (and the minutes given when none was
\* detected), so they may still end with a "+" when two were given
C8_TrackerStart ==
  command = "new" =>
    /\ trackerCalls # <<>> =>
         /\ EndsWithPlus(minutesGiven)
         /\ Len(created) = 1 /\ trackerCalls = created
         /\ ~Printed(stderr, "Error while creating new time entry")
    /\ Printed(stderr, "Error while creating new time entry") =>
         pc = "exited" /\ exitCode = 1 /\ trackerCalls = <<>> /\ created = <<>>
    /\ \A i \in 1..Len(addTimeEntryCalls) :
         addTimeEntryCalls[i].minutes =
           IF EndsWithPlus(minutesGiven)
           THEN SubSeq(minutesGiven, 1, Len(minutesGiven) - 1)
           ELSE minutesGiven

\* minutes "5+" were given, "5" was sent, and the tracker runs for the entry
C8_Witness ==
  /\ command = "new" /\ pc = "exited" /\ exitCode = 0
  /\ minutesGiven = <<53, 43>>
  /\ Len(addTimeEntryCalls) = 1 /\ addTimeEntryCalls[1].minutes = <<53>>
  /\ Len(created) = 1 /\ trackerCalls = created
  /\ Printed(stdout, "Successfully started the time entry")

\* C9 as stated: addTimeEntry is never called with empty, missing or falsy
\* minutes, also not after the "+" was cut off
C9_AsStated ==
  command = "new" =>
    \A i \in 1..Len(addTimeEntryCalls) : Truthy(addTimeEntryCalls[i].minutes)

---------------------------------------------------------------------------
(* Claims about the customer list command.                                 *)

NonEmpty(v) == v # <<>>
\* the fetch was answered and the second then-callback has run to its end
ListRendered ==
  command = "customers" /\ pc = "exited" /\ requests # <<>> /\ ~Printed(stdout, "error")

\* C4 as stated: after a successful fetch, a requested column name that is
\* no key of the catalog means no grid, nothing on standard output and exit
\* code 2
C4_AsStated ==
  (ListRendered /\ \E i \in 1..Len(Split(program.columns)) :
                     Split(program.columns)[i] \notin CatalogKeys) =>
    tableData = <<>> /\ stdout = <<>> /\ exitCode = 2

\* the non-empty entries of the --columns value that are no catalog keys
UnknownRequested ==
  IF rawOptions.columns = Undefined THEN {}
  ELSE {i \in 1..Len(Split(rawOptions.columns)) :
          /\ Split(rawOptions.columns)[i] # <<>>
          /\ Split(rawOptions.columns)[i] \notin CatalogKeys}

\* C5 as stated: a run with an invalid --sort value or an unknown column name
\* exits with code 2 whatever the fetch does, and an invalid --sort value is
\* rejected before getCustomers is called
C5_AsStated ==
  (command = "customers" /\ pc = "exited") =>
    /\ (~SortAccepted(rawOptions.sort) \/ UnknownRequested # {}) => exitCode = 2
    /\ ~SortAccepted(rawOptions.sort) => requests = <<>>

\* the attribute a sort option stands for
SortAttribute(k) == IF k = "rate" THEN "hourly_rate" ELSE k
\* the lower-cased string form of the attribute a record is sorted by
SortKey(c) == ToLowerCase(StringOf(c[SortAttribute(program.sort)]))
Position(list, x) == CHOOSE i \in 1..Len(list) : list[i] = x
FilteredInput ==
  SelectSeq(customers,
            LAMBDA c : program.archived.t = "null" \/ c.archived = program.archived)

\* C6: the sorted list is a permutation of the filtered input, ascending by
\* the lower-cased string form of the sort attribute (rate standing for
\* hourly_rate), records with equal keys keeping their input order
C6_SortedStable ==
  (command = "sort" /\ pc = "filtered") =>
    /\ Len(items) = Len(FilteredInput)
    /\ {items[i] : i \in 1..Len(items)} = {FilteredInput[i] : i \in 1..Len(FilteredInput)}
    /\ \A i, j \in 1..Len(items) :
         i < j => ~StrLess(SortKey(items[j]), SortKey(items[i]))
    /\ \A i, j \in 1..Len(items) :
         (i < j /\ SortKey(items[i]) = SortKey(items[j])) =>
           Position(FilteredInput, items[i]) < Position(FilteredInput, items[j])

\* three customers were reordered, two of them with equal keys
C6_Witness ==
  /\ command = "sort" /\ pc = "filtered"
  /\ Len(items) = 3 /\ items # customers
  /\ program.sort = "rate"
  /\ \E i, j \in 1..Len(items) : i < j /\ SortKey(items[i]) = SortKey(items[j])
  /\ \E i, j \in 1..Len(items) : i < j /\ StrLess(SortKey(items[i]), SortKey(items[j]))

\* C7 as stated: the names looked up in the catalog are the non-empty
\* entries of the --columns value, in order (all of them when every lookup
\* succeeds), so no empty name is ever looked up
C7_AsStated ==
  (ListRendered /\ rawOptions.columns # Undefined /\ columnLookups # <<>>) =>
    LET wanted == SelectSeq(Split(rawOptions.columns), NonEmpty)
    IN /\ \A i \in 1..Len(columnLookups) : columnLookups[i] # <<>>
       /\ Len(columnLookups) <= Len(wanted)
       /\ columnLookups = SubSeq(wanted, 1, Len(columnLookups))

---------------------------------------------------------------------------
(* Claims about the customer-update completion.                            *)

\* C10 as stated: when prev is no value-taking option and the API answers,
\* the completion requests the customers once and resolves to the customer
\* options followed by the defaults not yet in the line; with --archived in
\* the line the request carries the archived state, a yes/true/1/ja value
\* selecting the opposite state from any other value
C10_AsStated ==
  (/\ command = "completion" /\ pc = "settled"
   /\ env.prev \notin {W_archived, W_name, W_note, W_hourly_rate}
   /\ completion.reason # "getCustomers") =>
    /\ completion.state = "resolved"
    /\ Len(requests) = 1
    /\ IndexOf(env.line, W_archived) # -1 =>
         requests[1].archived = Bool(~ArchivedTruthy(env.line))
    /\ completion.value =
         [i \in 1..Len(customers) |->
            [name |-> StringOf(customers[i].id), description |-> customers[i].name.v]]
         \o SelectSeq(defaults, LAMBDA option : IndexOf(env.line, option.name) = -1)

====
